---- MODULE Spec2Model ----
(***************************************************************************)
(* svm-mcp: six MCP tools (balance, last-transaction, account-tokens on    *)
(* the SOON testnet and mainnet) registered on one McpServer, and the      *)
(* bootstrap that connects the server to a stdio transport.                *)
(*                                                                         *)
(* Each tool handler is an async function.  It runs synchronously up to    *)
(* its next awaited RPC call, is suspended there, and is resumed when the  *)
(* call settles (fulfils with a value or rejects with a thrown value).     *)
(* One action of the model is one such run-to-suspension segment.  The     *)
(* RPC endpoints and the transport are the environment: what a call        *)
(* settles with is chosen from small sets.                                 *)
(***************************************************************************)
EXTENDS Integers, Sequences, FiniteSets, TLC

VARIABLES
    boot,         \* position of main(): "init", "connecting", "running", "exited"
    stderr,       \* lines written with console.error, in order
    exitCalls,    \* the codes process.exit was called with, in order
    connect,      \* the promise of server.connect(transport)
    connections,  \* the two module-level client handles -> their endpoint
    inv           \* the tool invocations in flight, one per dispatcher slot

vars == <<boot, stderr, exitCalls, connect, connections, inv>>

(***************************************************************************)
(* Bounds of the model.                                                    *)
(***************************************************************************)
NumInv == 2                      \* invocations that can be in flight at once

Slots == 1..NumInv

(***************************************************************************)
(* Values of the environment.                                              *)
(***************************************************************************)
ValidAddresses == {"addrA"}
Addresses == ValidAddresses \cup {"not-a-key"}
Signatures == {"sig1", "sig2"}
Balances == {0, 5}

NoError == [kind |-> "none"]
Error(message) == [kind |-> "Error", message |-> message]
ThrownString(value) == [kind |-> "string", value |-> value]

\* What an RPC call or the transport can reject with: an Error instance or
\* a value that is no Error.
Failures == {Error("fetch failed"), ThrownString("timeout")}

Null == [type |-> "null"]

(***************************************************************************)
(* The client handles and the server's tool catalogue.                     *)
(***************************************************************************)
connectionTestnet == "https://rpc.testnet.soo.network/rpc"
connectionMainnet == "https://rpc.mainnet.soo.network/rpc"

BalanceTools == {"get-soon-testnet-balance", "get-soon-mainnet-balance"}
LastTransactionTools ==
    {"get-soon-testnet-last-transaction", "get-soon-mainnet-last-transaction"}
AccountTokensTools ==
    {"get-soon-testnet-account-tokens", "get-soon-mainnet-account-tokens"}
Tools == BalanceTools \cup LastTransactionTools \cup AccountTokensTools

TokenProgramId == "TokenkegQfeZyiNwAJbNbGKPFXCWuBvf9Ss623VQ5DA"

\* The handle each handler closes over, per call site.
BalanceConnection(tool) ==
    IF tool = "get-soon-testnet-balance" THEN "connectionTestnet"
    ELSE "connectionMainnet"

SignaturesConnection(tool) ==
    IF tool = "get-soon-testnet-last-transaction" THEN "connectionTestnet"
    ELSE "connectionMainnet"

TransactionConnectionCopied(tool) == "connectionTestnet"

TransactionConnection(tool) ==
    IF tool = "get-soon-testnet-last-transaction" THEN "connectionTestnet"
    ELSE "connectionMainnet"

TokensConnection(tool) ==
    IF tool = "get-soon-testnet-account-tokens" THEN "connectionTestnet"
    ELSE "connectionMainnet"

(***************************************************************************)
(* Expressions of the handlers.                                            *)
(***************************************************************************)
\* new PublicKey(address) throws on a string that is no base58 public key.
PublicKeyThrows(address) == address \notin ValidAddresses
InvalidPublicKey == Error("Invalid public key input")

\* error instanceof Error ? error.message : String(error)
ErrorMessageUnguarded(error) ==
    IF error.kind = "Error" THEN error.message ELSE "undefined"

ErrorMessage(error) ==
    IF error.kind = "Error" THEN error.message ELSE error.value

\* JSON.stringify of what the RPC client returns.
RECURSIVE JoinJSON(_)
JoinJSON(items) ==
    IF Len(items) = 0 THEN ""
    ELSE IF Len(items) = 1 THEN "{\"pubkey\":\"" \o items[1].pubkey \o "\"}"
    ELSE "{\"pubkey\":\"" \o items[1].pubkey \o "\"}," \o JoinJSON(Tail(items))

JSONstringify(value) ==
    CASE value.type = "null" -> "null"
      [] value.type = "transaction" ->
            "{\"slot\":" \o ToString(value.slot)
                \o ",\"signature\":\"" \o value.signature \o "\"}"
      [] value.type = "tokens" ->
            "{\"context\":{\"slot\":" \o ToString(value.slot)
                \o "},\"value\":[" \o JoinJSON(value.value) \o "]}"

TextBlock(text) == [type |-> "text", text |-> text]

BalanceTextInSol(balance) == "Balance: " \o ToString(balance \div 1000000000)

BalanceTextCached(balance) ==
    IF \E j \in Slots : inv[j].pc = "returned" /\ inv[j].tool \in BalanceTools
    THEN LET j == CHOOSE j \in Slots :
                      inv[j].pc = "returned" /\ inv[j].tool \in BalanceTools
         IN  inv[j].result[1].text
    ELSE "Balance: " \o ToString(balance)

\* `Balance: ${balance}`
BalanceText(balance) == "Balance: " \o ToString(balance)

NoTransactionsText == "No transactions found for this address"

\* `Error getting transaction: ${...}` and `Error getting tokens: ${...}`
TransactionErrorText(error) == "Error getting transaction: " \o ErrorMessage(error)
TokensErrorText(error) == "Error getting tokens: " \o ErrorMessage(error)

SignaturesOptionsWide == [limit |-> 2]

\* { limit: 1 }
SignaturesOptions == [limit |-> 1]

TokensFilter == [programId |-> TokenProgramId]

\* signatures.length === 0
SignaturesEmptyUnchecked(signatures) == FALSE

SignaturesEmpty(signatures) == Len(signatures) = 0

\* signatures[0].signature: reading .signature of undefined throws.
LatestSignatureThrows(signatures) == Len(signatures) = 0
UndefinedSignature ==
    Error("Cannot read properties of undefined (reading 'signature')")
LatestSignature(signatures) == signatures[1].signature

(***************************************************************************)
(* What the environment can settle a call with.                            *)
(***************************************************************************)
Pending == [state |-> "pending"]
Fulfilled(value) == [state |-> "fulfilled", value |-> value]
Rejected(reason) == [state |-> "rejected", reason |-> reason]

Rejections == {Rejected(e) : e \in Failures}

BalanceResponses == {Fulfilled(b) : b \in Balances} \cup Rejections

\* The node returns at most options.limit entries, newest first.
SignatureLists(limit) ==
    UNION {[1..n -> {[signature |-> s] : s \in Signatures}] : n \in 0..limit}
SignaturesResponses(options) ==
    {Fulfilled(l) : l \in SignatureLists(options.limit)} \cup Rejections

\* The record of the requested signature, or null when the node has none.
TransactionResponses(signature) ==
    {Fulfilled(Null),
     Fulfilled([type |-> "transaction", slot |-> 7, signature |-> signature])}
        \cup Rejections

TokensResponses ==
    {Fulfilled([type |-> "tokens", slot |-> 7, value |-> <<>>]),
     Fulfilled([type |-> "tokens", slot |-> 7,
                value |-> <<[pubkey |-> "tokA"]>>])}
        \cup Rejections

(***************************************************************************)
(* An invocation: the handler's position, the calls it has issued on the   *)
(* client handles, and what it handed back to the dispatcher.              *)
(***************************************************************************)
Idle ==
    [pc |-> "idle", tool |-> "none", address |-> "none", calls |-> <<>>,
     result |-> <<>>, thrown |-> NoError]

Started(tool, address) == [Idle EXCEPT !.tool = tool, !.address = address]

Call(connection, method, args) ==
    [connection |-> connection, method |-> method, args |-> args,
     response |-> Pending]

\* The handler issues a call and is suspended at the await.
Await(slot, pc, call) ==
    [slot EXCEPT !.pc = pc, !.calls = Append(slot.calls, call)]

\* The call the handler is suspended on settles.
Settle(slot, response) ==
    [slot EXCEPT !.calls[Len(slot.calls)].response = response]

\* return { content: [ { type: "text", text } ] }
Return(slot, text) ==
    [slot EXCEPT !.pc = "returned", !.result = <<TextBlock(text)>>]

\* A throw no handler-level catch intercepts rejects the handler's promise.
Throw(slot, error) == [slot EXCEPT !.pc = "rejected", !.thrown = error]

LastCall(slot) == slot.calls[Len(slot.calls)]

(***************************************************************************)
(* The balance handlers: no try/catch around the call.                     *)
(***************************************************************************)
StartBalance(tool, address) ==
    IF PublicKeyThrows(address)
    THEN Throw(Started(tool, address), InvalidPublicKey)
    ELSE Await(Started(tool, address), "awaitBalance",
               Call(BalanceConnection(tool), "getBalance", <<address>>))

ResumeBalance(slot, response) ==
    IF response.state = "rejected"
    THEN Throw(Settle(slot, response), response.reason)
    ELSE Return(Settle(slot, response), BalanceText(response.value))

(***************************************************************************)
(* The last-transaction handlers: the whole body is inside try/catch.      *)
(***************************************************************************)
SignaturesCall(tool, address) ==
    Call(SignaturesConnection(tool), "getSignaturesForAddress",
         <<address, SignaturesOptions>>)

CatchTransactionRetrying(slot, error) ==
    IF Len(slot.calls) < 2 /\ slot.pc = "awaitSignatures"
    THEN Await(slot, "awaitSignatures", SignaturesCall(slot.tool, slot.address))
    ELSE Return(slot, TransactionErrorText(error))

CatchTransaction(slot, error) == Return(slot, TransactionErrorText(error))

StartLastTransaction(tool, address) ==
    IF PublicKeyThrows(address)
    THEN CatchTransaction(Started(tool, address), InvalidPublicKey)
    ELSE Await(Started(tool, address), "awaitSignatures",
               SignaturesCall(tool, address))

ResumeSignatures(slot, response) ==
    IF response.state = "rejected"
    THEN CatchTransaction(Settle(slot, response), response.reason)
    ELSE IF SignaturesEmpty(response.value)
    THEN Return(Settle(slot, response), NoTransactionsText)
    ELSE IF LatestSignatureThrows(response.value)
    THEN CatchTransaction(Settle(slot, response), UndefinedSignature)
    ELSE Await(Settle(slot, response), "awaitTransaction",
               Call(TransactionConnection(slot.tool), "getConfirmedTransaction",
                    <<LatestSignature(response.value)>>))

ResumeTransactionNullAsNone(slot, response) ==
    IF response.state = "rejected"
    THEN CatchTransaction(Settle(slot, response), response.reason)
    ELSE IF response.value.type = "null"
    THEN Return(Settle(slot, response), NoTransactionsText)
    ELSE Return(Settle(slot, response), JSONstringify(response.value))

ResumeTransaction(slot, response) ==
    IF response.state = "rejected"
    THEN CatchTransaction(Settle(slot, response), response.reason)
    ELSE Return(Settle(slot, response), JSONstringify(response.value))

(***************************************************************************)
(* The account-tokens handlers: the whole body is inside try/catch.        *)
(***************************************************************************)
CatchTokens(slot, error) == Return(slot, TokensErrorText(error))

StartAccountTokens(tool, address) ==
    IF PublicKeyThrows(address)
    THEN CatchTokens(Started(tool, address), InvalidPublicKey)
    ELSE Await(Started(tool, address), "awaitTokens",
               Call(TokensConnection(tool), "getTokenAccountsByOwner",
                    <<address, TokensFilter>>))

ResumeTokens(slot, response) ==
    IF response.state = "rejected"
    THEN CatchTokens(Settle(slot, response), response.reason)
    ELSE Return(Settle(slot, response), JSONstringify(response.value))

(***************************************************************************)
(* main(): the bootstrap.                                                  *)
(***************************************************************************)
Line(text, error) == [text |-> text, error |-> error]

\* catch (error) { console.error(..., error); process.exit(1); }
MainCatchWithoutExit(lines, error) ==
    [stderr |-> Append(lines,
                  Line("There was an error connecting to the server:", error)),
     exitCalls |-> <<>>,
     boot |-> "running"]

MainCatch(lines, error) ==
    [stderr |-> Append(lines,
                  Line("There was an error connecting to the server:", error)),
     exitCalls |-> <<1>>,
     boot |-> "exited"]

Init ==
    /\ boot = "init"
    /\ stderr = <<>>
    /\ exitCalls = <<>>
    /\ connect = [state |-> "none"]
    /\ connections = [connectionTestnet |-> connectionTestnet,
                      connectionMainnet |-> connectionMainnet]
    /\ inv = [i \in Slots |-> Idle]

\* main() up to the await of server.connect(transport).
MainStart ==
    /\ boot = "init"
    /\ boot' = "connecting"
    /\ stderr' = stderr \o
            <<Line("Starting MCP server...", NoError),
              Line("Transport initialized, connecting to server...", NoError)>>
    /\ connect' = Pending
    /\ UNCHANGED <<exitCalls, connections, inv>>

\* server.connect(transport) fulfils: main() logs and returns.
ConnectFulfilled ==
    /\ boot = "connecting"
    /\ connect' = Fulfilled(Null)
    /\ boot' = "running"
    /\ stderr' = Append(stderr,
            Line("Server connection established successfully", NoError))
    /\ UNCHANGED <<exitCalls, connections, inv>>

\* server.connect(transport) rejects: main's catch logs and exits.
ConnectRejected(error) ==
    /\ boot = "connecting"
    /\ connect' = Rejected(error)
    /\ boot' = MainCatch(stderr, error).boot
    /\ stderr' = MainCatch(stderr, error).stderr
    /\ exitCalls' = exitCalls \o MainCatch(stderr, error).exitCalls
    /\ UNCHANGED <<connections, inv>>

(***************************************************************************)
(* The dispatcher calls a registered handler; the environment settles the  *)
(* call the handler is suspended on; the dispatcher takes the outcome.     *)
(***************************************************************************)
InvokeBalance(i, tool, address) ==
    /\ boot = "running"
    /\ inv[i].pc = "idle"
    /\ inv' = [inv EXCEPT ![i] = StartBalance(tool, address)]
    /\ UNCHANGED <<boot, stderr, exitCalls, connect, connections>>

InvokeLastTransaction(i, tool, address) ==
    /\ boot = "running"
    /\ inv[i].pc = "idle"
    /\ inv' = [inv EXCEPT ![i] = StartLastTransaction(tool, address)]
    /\ UNCHANGED <<boot, stderr, exitCalls, connect, connections>>

InvokeAccountTokens(i, tool, address) ==
    /\ boot = "running"
    /\ inv[i].pc = "idle"
    /\ inv' = [inv EXCEPT ![i] = StartAccountTokens(tool, address)]
    /\ UNCHANGED <<boot, stderr, exitCalls, connect, connections>>

GetBalanceSettles(i) ==
    /\ inv[i].pc = "awaitBalance"
    /\ \E response \in BalanceResponses :
          inv' = [inv EXCEPT ![i] = ResumeBalance(inv[i], response)]
    /\ UNCHANGED <<boot, stderr, exitCalls, connect, connections>>

GetSignaturesSettles(i) ==
    /\ inv[i].pc = "awaitSignatures"
    /\ \E response \in SignaturesResponses(LastCall(inv[i]).args[2]) :
          inv' = [inv EXCEPT ![i] = ResumeSignatures(inv[i], response)]
    /\ UNCHANGED <<boot, stderr, exitCalls, connect, connections>>

GetTransactionSettles(i) ==
    /\ inv[i].pc = "awaitTransaction"
    /\ \E response \in TransactionResponses(LastCall(inv[i]).args[1]) :
          inv' = [inv EXCEPT ![i] = ResumeTransaction(inv[i], response)]
    /\ UNCHANGED <<boot, stderr, exitCalls, connect, connections>>

GetTokensSettles(i) ==
    /\ inv[i].pc = "awaitTokens"
    /\ \E response \in TokensResponses :
          inv' = [inv EXCEPT ![i] = ResumeTokens(inv[i], response)]
    /\ UNCHANGED <<boot, stderr, exitCalls, connect, connections>>

\* The request/response values of a finished invocation are dropped.
Respond(i) ==
    /\ inv[i].pc \in {"returned", "rejected"}
    /\ inv' = [inv EXCEPT ![i] = Idle]
    /\ UNCHANGED <<boot, stderr, exitCalls, connect, connections>>

Next ==
    \/ MainStart
    \/ ConnectFulfilled
    \/ \E error \in Failures : ConnectRejected(error)
    \/ \E i \in Slots, tool \in BalanceTools, address \in Addresses :
          InvokeBalance(i, tool, address)
    \/ \E i \in Slots, tool \in LastTransactionTools, address \in Addresses :
          InvokeLastTransaction(i, tool, address)
    \/ \E i \in Slots, tool \in AccountTokensTools, address \in Addresses :
          InvokeAccountTokens(i, tool, address)
    \/ \E i \in Slots : GetBalanceSettles(i)
    \/ \E i \in Slots : GetSignaturesSettles(i)
    \/ \E i \in Slots : GetTransactionSettles(i)
    \/ \E i \in Slots : GetTokensSettles(i)
    \/ \E i \in Slots : Respond(i)

Spec == Init /\ [][Next]_vars

(***************************************************************************)
(* Vocabulary of the properties.                                           *)
(***************************************************************************)
TestnetTools ==
    {"get-soon-testnet-balance", "get-soon-testnet-last-transaction",
     "get-soon-testnet-account-tokens"}
MainnetTools ==
    {"get-soon-mainnet-balance", "get-soon-mainnet-last-transaction",
     "get-soon-mainnet-account-tokens"}

Finished(s) == s.pc \in {"returned", "rejected"}

Malformed(s) == s.tool \in Tools /\ s.address \notin ValidAddresses

CallRejected(s) ==
    \E k \in 1..Len(s.calls) : s.calls[k].response.state = "rejected"

\* An underlying call of the invocation failed.
ErrorPath(s) == Malformed(s) \/ CallRejected(s)

\* The value the failed call threw or rejected with.
FailureOf(s) ==
    IF Malformed(s) THEN Error("Invalid public key input")
    ELSE LastCall(s).response.reason

\* The message of a thrown Error, the string form of any other thrown value.
Describes(error) ==
    IF error.kind = "Error" THEN error.message ELSE error.value

OneTextBlock(s, text) ==
    /\ s.pc = "returned"
    /\ s.result = <<[type |-> "text", text |-> text]>>

\* The signature query of a last-transaction invocation returned no entry.
ZeroSignatures(s) ==
    /\ s.tool \in LastTransactionTools
    /\ Len(s.calls) >= 1
    /\ s.calls[1].response.state = "fulfilled"
    /\ Len(s.calls[1].response.value) = 0

MethodCalls(s, method) ==
    {k \in 1..Len(s.calls) : s.calls[k].method = method}

(***************************************************************************)
(* C1: every handler, whatever the outcome of its underlying calls,        *)
(* returns an envelope of exactly one text block (never zero blocks,       *)
(* never a rejection instead of an envelope): on an error path a text that *)
(* describes the error, on a success path a formatted scalar or a          *)
(* serialized structure.                                                   *)
(***************************************************************************)
ErrorTexts(s) ==
    {prefix \o Describes(FailureOf(s)) :
        prefix \in {"Error getting balance: ", "Error getting transaction: ",
                    "Error getting tokens: "}}

SuccessTexts(s) ==
    {"Balance: " \o ToString(b) : b \in Balances}
        \cup {"No transactions found for this address"}
        \cup (IF s.tool \in BalanceTools \/ ZeroSignatures(s)
              THEN {}
              ELSE {JSONstringify(LastCall(s).response.value)})

C1_EveryHandlerReturnsOneTextBlock ==
    \A i \in Slots :
        Finished(inv[i]) =>
            /\ inv[i].pc = "returned"
            /\ Len(inv[i].result) = 1
            /\ inv[i].result[1].type = "text"
            /\ ErrorPath(inv[i]) => inv[i].result[1].text \in ErrorTexts(inv[i])
            /\ ~ErrorPath(inv[i]) => inv[i].result[1].text \in SuccessTexts(inv[i])

(***************************************************************************)
(* C2: a balance tool whose lookup fails (address constructor throws or    *)
(* getBalance rejects) returns the one text block                          *)
(* 'Error getting balance: {message}'.                                     *)
(***************************************************************************)
C2_BalanceFailureReturnsErrorText ==
    \A i \in Slots :
        (inv[i].tool \in BalanceTools /\ Finished(inv[i]) /\ ErrorPath(inv[i]))
            => OneTextBlock(inv[i],
                   "Error getting balance: " \o Describes(FailureOf(inv[i])))

(***************************************************************************)
(* C3: in a last-transaction tool, when the signature query returns zero   *)
(* signatures the handler returns the one text block                       *)
(* 'No transactions found for this address', and the invocation issues no  *)
(* getConfirmedTransaction call.                                           *)
(***************************************************************************)
C3_ZeroSignaturesSentinel ==
    \A i \in Slots :
        ZeroSignatures(inv[i]) =>
            /\ OneTextBlock(inv[i], "No transactions found for this address")
            /\ MethodCalls(inv[i], "getConfirmedTransaction") = {}
            /\ Len(inv[i].calls) = 1

C3_Witness ==
    \E i \in Slots : ZeroSignatures(inv[i]) /\ inv[i].pc = "returned"

(***************************************************************************)
(* C4: in a last-transaction tool the first call is the signature query    *)
(* with limit 1 for the given address; when it returns at least one entry  *)
(* exactly one transaction-detail query follows it, for the signature of   *)
(* the first entry, and when that query returns, the handler's one text    *)
(* block is the serialization of what it returned.                         *)
(***************************************************************************)
SomeSignatures(s) ==
    /\ s.tool \in LastTransactionTools
    /\ Len(s.calls) >= 1
    /\ s.calls[1].response.state = "fulfilled"
    /\ Len(s.calls[1].response.value) >= 1

C4_SignatureThenDetail ==
    \A i \in Slots :
        LET s == inv[i] IN
        /\ (s.tool \in LastTransactionTools /\ Len(s.calls) >= 1) =>
              /\ s.calls[1].method = "getSignaturesForAddress"
              /\ s.calls[1].args = <<s.address, [limit |-> 1]>>
        /\ SomeSignatures(s) =>
              /\ Len(s.calls) = 2
              /\ s.calls[2].method = "getConfirmedTransaction"
              /\ s.calls[2].args = <<s.calls[1].response.value[1].signature>>
              /\ s.calls[2].response.state = "fulfilled" =>
                    OneTextBlock(s, JSONstringify(s.calls[2].response.value))

C4_Witness ==
    \E i \in Slots :
        /\ SomeSignatures(inv[i])
        /\ Len(inv[i].calls) = 2
        /\ inv[i].calls[2].response.state = "fulfilled"
        /\ inv[i].calls[2].response.value.type = "transaction"
        /\ inv[i].pc = "returned"

(***************************************************************************)
(* C5: a last-transaction or account-tokens tool whose underlying call     *)
(* fails (address construction, signature query, transaction-detail query, *)
(* token-account query) does not throw: it returns one text block,         *)
(* 'Error getting transaction: ' or 'Error getting tokens: ' followed by   *)
(* the message of the thrown value.                                        *)
(***************************************************************************)
C5_FailureBecomesErrorText ==
    \A i \in Slots :
        LET s == inv[i] IN
        /\ s.tool \in LastTransactionTools \cup AccountTokensTools =>
              s.pc # "rejected"
        /\ (s.tool \in LastTransactionTools /\ ErrorPath(s)) =>
              OneTextBlock(s,
                  "Error getting transaction: " \o Describes(FailureOf(s)))
        /\ (s.tool \in AccountTokensTools /\ ErrorPath(s)) =>
              OneTextBlock(s, "Error getting tokens: " \o Describes(FailureOf(s)))

C5_Witness ==
    \E i, j \in Slots :
        /\ inv[i].tool \in LastTransactionTools
        /\ Len(inv[i].calls) = 2
        /\ inv[i].calls[2].response.state = "rejected"
        /\ inv[i].pc = "returned"
        /\ inv[j].tool \in AccountTokensTools
        /\ ErrorPath(inv[j])
        /\ inv[j].pc = "returned"

(***************************************************************************)
(* C6: for a valid address and a getBalance call that succeeds, a balance  *)
(* tool returns exactly one text block, 'Balance: ' followed by the number *)
(* getBalance returned.                                                    *)
(***************************************************************************)
BalanceSucceeded(s) ==
    /\ s.tool \in BalanceTools
    /\ s.address \in ValidAddresses
    /\ Len(s.calls) >= 1
    /\ s.calls[1].response.state = "fulfilled"

C6_BalanceText ==
    \A i \in Slots :
        BalanceSucceeded(inv[i]) =>
            OneTextBlock(inv[i],
                "Balance: " \o ToString(inv[i].calls[1].response.value))

C6_Witness ==
    \E i \in Slots :
        /\ BalanceSucceeded(inv[i])
        /\ inv[i].calls[1].response.value = 5
        /\ inv[i].result = <<[type |-> "text", text |-> "Balance: 5"]>>

(***************************************************************************)
(* C7: every call of a testnet tool is issued on the testnet client handle *)
(* and every call of a mainnet tool on the mainnet client handle, the      *)
(* second call of last-transaction included; the handle leads to its own   *)
(* network's endpoint.                                                     *)
(***************************************************************************)
C7_NoCrossNetworkCall ==
    \A i \in Slots : \A k \in 1..Len(inv[i].calls) :
        /\ inv[i].tool \in TestnetTools =>
              /\ inv[i].calls[k].connection = "connectionTestnet"
              /\ connections[inv[i].calls[k].connection]
                    = "https://rpc.testnet.soo.network/rpc"
        /\ inv[i].tool \in MainnetTools =>
              /\ inv[i].calls[k].connection = "connectionMainnet"
              /\ connections[inv[i].calls[k].connection]
                    = "https://rpc.mainnet.soo.network/rpc"

C7_Witness ==
    \E i, j \in Slots :
        /\ inv[i].tool = "get-soon-mainnet-last-transaction"
        /\ Len(inv[i].calls) = 2
        /\ inv[j].tool = "get-soon-testnet-last-transaction"
        /\ Len(inv[j].calls) = 2

(***************************************************************************)
(* C8: with invocations in flight together, under every interleaving of    *)
(* their awaited calls, the outcome of each invocation is the outcome it   *)
(* has run alone against the responses its own calls got; a step of one    *)
(* invocation changes nothing of any other invocation, and no step changes *)
(* the two client handles.                                                 *)
(***************************************************************************)
ResponseAt(s, k) == IF k <= Len(s.calls) THEN s.calls[k].response ELSE Pending

Outcome(s) == [pc |-> s.pc, result |-> s.result, thrown |-> s.thrown]

Returns(text) ==
    [pc |-> "returned", result |-> <<[type |-> "text", text |-> text]>>,
     thrown |-> NoError]

Throws(error) == [pc |-> "rejected", result |-> <<>>, thrown |-> error]

\* The handler of `tool` run to completion on its own, its first call
\* settling with r1 and its second with r2.
Alone(tool, address, r1, r2) ==
    LET bad == address \notin ValidAddresses
        badKey == Error("Invalid public key input")
    IN  CASE tool \in BalanceTools ->
                IF bad THEN Throws(badKey)
                ELSE IF r1.state = "rejected" THEN Throws(r1.reason)
                ELSE Returns("Balance: " \o ToString(r1.value))
          [] tool \in LastTransactionTools ->
                IF bad
                THEN Returns("Error getting transaction: " \o Describes(badKey))
                ELSE IF r1.state = "rejected"
                THEN Returns("Error getting transaction: " \o Describes(r1.reason))
                ELSE IF Len(r1.value) = 0
                THEN Returns("No transactions found for this address")
                ELSE IF r2.state = "rejected"
                THEN Returns("Error getting transaction: " \o Describes(r2.reason))
                ELSE Returns(JSONstringify(r2.value))
          [] tool \in AccountTokensTools ->
                IF bad THEN Returns("Error getting tokens: " \o Describes(badKey))
                ELSE IF r1.state = "rejected"
                THEN Returns("Error getting tokens: " \o Describes(r1.reason))
                ELSE Returns(JSONstringify(r1.value))

OutcomeAsAlone ==
    \A i \in Slots :
        Finished(inv[i]) =>
            Outcome(inv[i]) = Alone(inv[i].tool, inv[i].address,
                                    ResponseAt(inv[i], 1), ResponseAt(inv[i], 2))

StepTouchesOneInvocation ==
    /\ connections' = connections
    /\ \A i, j \in Slots : (i # j /\ inv'[i] # inv[i]) => inv'[j] = inv[j]
    /\ inv' # inv => (boot' = boot /\ stderr' = stderr /\ exitCalls' = exitCalls)

C8_InvocationsIndependent == []OutcomeAsAlone /\ [][StepTouchesOneInvocation]_vars

C8_Witness ==
    \E i, j \in Slots :
        /\ i # j
        /\ inv[i].tool \in BalanceTools
        /\ inv[i].pc = "returned"
        /\ inv[i].result[1].text = "Balance: 5"
        /\ inv[j].tool \in BalanceTools
        /\ inv[j].pc = "returned"
        /\ inv[j].result[1].text = "Balance: 0"

(***************************************************************************)
(* C9: no call is retried: one invocation of a balance tool issues at most *)
(* one getBalance call, of an account-tokens tool at most one              *)
(* getTokenAccountsByOwner call, of a last-transaction tool at most one    *)
(* getSignaturesForAddress and at most one getConfirmedTransaction call,   *)
(* and no other call; also when a call fails.                              *)
(***************************************************************************)
Methods ==
    {"getBalance", "getSignaturesForAddress", "getConfirmedTransaction",
     "getTokenAccountsByOwner"}

MethodsOf(tool) ==
    IF tool \in BalanceTools THEN {"getBalance"}
    ELSE IF tool \in LastTransactionTools
    THEN {"getSignaturesForAddress", "getConfirmedTransaction"}
    ELSE IF tool \in AccountTokensTools THEN {"getTokenAccountsByOwner"}
    ELSE {}

C9_NoRetry ==
    \A i \in Slots :
        /\ \A m \in Methods : Cardinality(MethodCalls(inv[i], m)) <= 1
        /\ \A k \in 1..Len(inv[i].calls) :
              inv[i].calls[k].method \in MethodsOf(inv[i].tool)

C9_Witness ==
    \E i \in Slots :
        /\ inv[i].tool \in LastTransactionTools
        /\ Finished(inv[i])
        /\ Len(inv[i].calls) = 1
        /\ inv[i].calls[1].response.state = "rejected"

(***************************************************************************)
(* C10: when server.connect rejects at startup, the failure is written to  *)
(* the diagnostic stream and process.exit is called once, with code 1;     *)
(* when it fulfils, the bootstrap never calls exit and the process stays   *)
(* running.                                                                *)
(***************************************************************************)
C10_StartupExit ==
    /\ connect.state = "rejected" =>
          /\ boot = "exited"
          /\ exitCalls = <<1>>
          /\ \E k \in 1..Len(stderr) : stderr[k].error = connect.reason
    /\ connect.state = "fulfilled" =>
          /\ boot = "running"
          /\ exitCalls = <<>>
    /\ exitCalls # <<>> => connect.state = "rejected"

C10_Witness ==
    /\ connect.state = "rejected"
    /\ exitCalls = <<1>>

(***************************************************************************)
(* C11: in a last-transaction tool, when the signature query returns a     *)
(* signature and the transaction-detail query fulfils with null (no        *)
(* record), the handler returns one text block whose text is 'null': not   *)
(* the 'No transactions found for this address' sentinel and not an        *)
(* 'Error getting transaction: ' text.                                     *)
(***************************************************************************)
DetailIsNull(s) ==
    /\ SomeSignatures(s)
    /\ Len(s.calls) >= 2
    /\ s.calls[2].response.state = "fulfilled"
    /\ s.calls[2].response.value.type = "null"

TransactionErrorTexts ==
    {"Error getting transaction: " \o Describes(e) :
        e \in Failures \cup {Error("Invalid public key input")}}

C11_NullDetailSerialized ==
    \A i \in Slots :
        DetailIsNull(inv[i]) =>
            /\ OneTextBlock(inv[i], "null")
            /\ inv[i].result[1].text # "No transactions found for this address"
            /\ inv[i].result[1].text \notin TransactionErrorTexts
            /\ Len(inv[i].calls) = 2

C11_Witness ==
    \E i \in Slots :
        /\ DetailIsNull(inv[i])
        /\ inv[i].pc = "returned"
        /\ inv[i].result = <<[type |-> "text", text |-> "null"]>>

====
